---------------------------- MODULE Spec2Model ----------------------------
(***************************************************************************)
(* Model of the hubble-server plan resource (POST /plans, GET /plans,      *)
(* GET /plans/:identifier) and of the requireRole middleware.              *)
(*                                                                         *)
(* Every HTTP request is handled by a slot of `req`.  A handler is cut at  *)
(* its awaits: the synchronous prefix is one action, every awaited store   *)
(* operation together with the continuation that follows it is another.    *)
(***************************************************************************)
EXTENDS Integers, Sequences, FiniteSets, TLC

(***************************************************************************)
(* Bounds of the model.                                                    *)
(***************************************************************************)
MaxReqs == 2
MaxPlans == 2
MaxNow == 1

Reqs == 1..MaxReqs

(***************************************************************************)
(* JavaScript values.  undefined is the absence of a key (or the empty     *)
(* option <<>>); other values are tagged.  Free-text strings carry their   *)
(* characters as a sequence, enumerated strings carry a TLA+ string.       *)
(***************************************************************************)
Str(s) == [t |-> "str", v |-> s]
Num(n) == [t |-> "num", v |-> n, f |-> 0]
Dec(n, f) == [t |-> "num", v |-> n, f |-> f]
Bool(b) == [t |-> "bool", v |-> b]
Date(d) == [t |-> "date", v |-> d]
JNull == [t |-> "null"]

None == <<>>
Some(v) == <<v>>

Get(obj, key) == IF key \in DOMAIN obj THEN Some(obj[key]) ELSE None

Rep(c, n) == [i \in 1..n |-> c]

LowerLetters ==
    <<"a","b","c","d","e","f","g","h","i","j","k","l","m",
      "n","o","p","q","r","s","t","u","v","w","x","y","z">>
UpperLetters ==
    <<"A","B","C","D","E","F","G","H","I","J","K","L","M",
      "N","O","P","Q","R","S","T","U","V","W","X","Y","Z">>
DigitChars == <<"0","1","2","3","4","5","6","7","8","9">>

Range(s) == {s[i] : i \in DOMAIN s}

IsSpace(c) == c \in {" ", "\t", "\n"}

ToLowerChar(c) ==
    IF c \in Range(UpperLetters)
    THEN LowerLetters[CHOOSE i \in DOMAIN UpperLetters : UpperLetters[i] = c]
    ELSE c

ToLowerCase(s) == [i \in DOMAIN s |-> ToLowerChar(s[i])]

RECURSIVE TrimLeft(_)
TrimLeft(s) ==
    IF s # <<>> /\ IsSpace(Head(s)) THEN TrimLeft(Tail(s)) ELSE s

RECURSIVE TrimRight(_)
TrimRight(s) ==
    IF s # <<>> /\ IsSpace(s[Len(s)])
    THEN TrimRight(SubSeq(s, 1, Len(s) - 1))
    ELSE s

Trim(s) == TrimRight(TrimLeft(s))

IsAlphanum(s) ==
    \A i \in DOMAIN s :
        s[i] \in Range(LowerLetters) \cup Range(UpperLetters) \cup Range(DigitChars)

IsInteger(x) == x.f = 0

(***************************************************************************)
(* Joi rules.  A rule maps the option holding the raw value to             *)
(* [err, val]: err is "" or the name of the rule that failed, val is the   *)
(* option holding the converted value.                                     *)
(***************************************************************************)
Ok(v) == [err |-> "", val |-> v]
Fail(rule) == [err |-> rule, val |-> None]

NameMin == 2
NameMax == 100
CodeMin == 2
CodeMax == 20
DescriptionMax == 200
LimitMin == 10
LimitDefault == 20
PageDefault == 0
PAGINATE_MAX_LIMIT == 50

\* joi.string().trim().min(lo).max(hi).required()
RequiredText(x, lo, hi) ==
    IF x = None THEN Fail("any.required")
    ELSE IF x[1].t # "str" THEN Fail("string.base")
    ELSE LET s == Trim(x[1].v) IN
         IF s = <<>> THEN Fail("string.empty")
         ELSE IF Len(s) < lo THEN Fail("string.min")
         ELSE IF Len(s) > hi THEN Fail("string.max")
         ELSE Ok(Some(Str(s)))

\* joi.string().trim().lowercase().alphanum().min(2).max(20).required()
CodeRule(x) ==
    IF x = None THEN Fail("any.required")
    ELSE IF x[1].t # "str" THEN Fail("string.base")
    ELSE LET s == ToLowerCase(Trim(x[1].v)) IN
         IF s = <<>> THEN Fail("string.empty")
         ELSE IF ~IsAlphanum(s) THEN Fail("string.alphanum")
         ELSE IF Len(s) < CodeMin THEN Fail("string.min")
         ELSE IF Len(s) > CodeMax THEN Fail("string.max")
         ELSE Ok(Some(Str(s)))

\* joi.string().trim().max(hi).allow(null).empty("").default(null); hi < 0
\* stands for no max rule.
NullableText(x, hi) ==
    IF x = None THEN Ok(Some(JNull))
    ELSE IF x[1] = JNull THEN Ok(Some(JNull))
    ELSE IF x[1].t # "str" THEN Fail("string.base")
    ELSE IF x[1].v = <<>> THEN Ok(Some(JNull))
    ELSE LET s == Trim(x[1].v) IN
         IF s = <<>> THEN Fail("string.empty")
         ELSE IF hi >= 0 /\ Len(s) > hi THEN Fail("string.max")
         ELSE Ok(Some(Str(s)))

\* joi.number() with an optional integer() rule; dflt = None makes the key
\* required, Some(d) is its default.
NumberRule(x, integer, dflt) ==
    IF x = None
    THEN (IF dflt = None THEN Fail("any.required") ELSE Ok(dflt))
    ELSE IF x[1].t # "num" THEN Fail("number.base")
    ELSE IF integer /\ ~IsInteger(x[1]) THEN Fail("number.integer")
    ELSE Ok(x)

\* joi.string().valid(...) over the enumerated strings `allowed`.
EnumRule(x, allowed, dflt) ==
    IF x = None
    THEN (IF dflt = None THEN Fail("any.required") ELSE Ok(dflt))
    ELSE IF x[1].t # "str" \/ x[1].v \notin allowed THEN Fail("any.only")
    ELSE Ok(x)

\* joi.boolean().default(d)
BooleanRule(x, dflt) ==
    IF x = None THEN Ok(dflt)
    ELSE IF x[1].t # "bool" THEN Fail("boolean.base")
    ELSE Ok(x)

\* The first key, in schema order, whose rule failed; 0 if none did.
FirstError(order, results) ==
    IF \E i \in DOMAIN order : results[order[i]].err # ""
    THEN CHOOSE i \in DOMAIN order :
            /\ results[order[i]].err # ""
            /\ \A j \in 1..(i - 1) : results[order[j]].err = ""
    ELSE 0

\* schema.validate(parameters): {error, value}.  Keys left undefined by
\* their rule are not part of value.
Validate(order, results) ==
    LET bad == FirstError(order, results) IN
    IF bad # 0
    THEN [error |-> Some([key |-> order[bad], rule |-> results[order[bad]].err]),
          value |-> [k \in {} |-> None]]
    ELSE [error |-> None,
          value |-> [k \in {order[i] : i \in {j \in DOMAIN order :
                                              results[order[j]].val # None}}
                     |-> results[k].val[1]]]

PeriodUnits == {"days", "months"}

PlanKeys ==
    <<"name", "code", "description", "billingCyclePeriod",
      "billingCyclePeriodUnit", "pricePerBillingCycle", "setupFee",
      "totalBillingCycles", "trialPeriod", "trialPeriodUnit", "renews">>

planSchema(p) ==
    Validate(PlanKeys,
        [name |-> RequiredText(p.name, NameMin, NameMax),
         code |-> CodeRule(p.code),
         description |-> NullableText(p.description, DescriptionMax),
         billingCyclePeriod |-> NumberRule(p.billingCyclePeriod, TRUE, None),
         billingCyclePeriodUnit |->
             EnumRule(p.billingCyclePeriodUnit, PeriodUnits, None),
         pricePerBillingCycle |-> NumberRule(p.pricePerBillingCycle, FALSE, None),
         setupFee |-> NumberRule(p.setupFee, FALSE, Some(Num(0))),
         totalBillingCycles |-> NumberRule(p.totalBillingCycles, TRUE, None),
         trialPeriod |-> NumberRule(p.trialPeriod, TRUE, Some(Num(0))),
         trialPeriodUnit |->
             EnumRule(p.trialPeriodUnit, PeriodUnits, Some(Str("days"))),
         renews |-> BooleanRule(p.renews, Some(Bool(TRUE)))])


DateRanges ==
    {"all_time", "last_3_months", "last_6_months", "last_9_months",
     "last_12_months", "last_15_months", "last_18_months", "custom"}

\* joi.date(), required or optional.
DateRule(x, required) ==
    IF x = None
    THEN (IF required THEN Fail("any.required") ELSE Ok(None))
    ELSE IF x[1].t # "date" THEN Fail("date.base")
    ELSE Ok(x)

\* .when(ref, { is: literal, then: joi.required() }): the reference is
\* looked up among the keys of the object under validation, and a literal
\* `is` is compiled as valid(literal).required(), which undefined fails.
WhenIs(p, ref, literal) ==
    LET v == IF ref \in DOMAIN p THEN p[ref] ELSE None
    IN  v = Some(Str(literal))

FilterKeys == <<"page", "limit", "dateRange", "startDate", "endDate", "search">>

\* joi.number().integer().min(10).max(PAGINATE_MAX_LIMIT).default(20)
LimitRule(x) ==
    LET r == NumberRule(x, TRUE, Some(Num(LimitDefault))) IN
    IF r.err # "" THEN r
    ELSE IF r.val[1].v < LimitMin THEN Fail("number.min")
    ELSE IF r.val[1].v > PAGINATE_MAX_LIMIT THEN Fail("number.max")
    ELSE r

filterSchema(p) ==
    Validate(FilterKeys,
        [page |-> NumberRule(p.page, TRUE, Some(Num(PageDefault))),
         limit |-> LimitRule(p.limit),
         dateRange |-> EnumRule(p.dateRange, DateRanges, Some(Str("all_time"))),
         startDate |-> DateRule(p.startDate, WhenIs(p, "date_range", "custom")),
         endDate |-> DateRule(p.endDate, WhenIs(p, "date_range", "custom")),
         search |-> NullableText(p.search, -1)])

(***************************************************************************)
(* Time.  An instant is a number of ticks; a day has TicksPerDay of them   *)
(* and a month DaysPerMonth days.  An Invalid Date is the empty option.    *)
(***************************************************************************)
TicksPerDay == 2
DaysPerMonth == 30

subMonths(d, amount) == d - amount * DaysPerMonth * TicksPerDay

startOfDay(x) ==
    IF x = None THEN None ELSE Some(x[1] - (x[1] % TicksPerDay))

endOfDay(x) ==
    IF x = None THEN None
    ELSE Some(x[1] - (x[1] % TicksPerDay) + TicksPerDay - 1)

Months(dateRange) ==
    CASE dateRange = "last_3_months" -> 3
      [] dateRange = "last_6_months" -> 6
      [] dateRange = "last_9_months" -> 9
      [] dateRange = "last_12_months" -> 12
      [] dateRange = "last_15_months" -> 15
      [] dateRange = "last_18_months" -> 18
      [] OTHER -> 0

(***************************************************************************)
(* Identifiers.  An ObjectId is the record of its 24 hexadecimal           *)
(* characters; the identifier of a user is an opaque token.                *)
(***************************************************************************)
IdentifierLength == 24

HexChars == Range(DigitChars) \cup {"a", "b", "c", "d", "e", "f"}

\* A pattern for the 12-character form of an identifier.
identifierPatternShort(identifier) ==
    /\ 2 * Len(identifier) = IdentifierLength
    /\ \A i \in DOMAIN identifier :
          identifier[i] \in Range(LowerLetters) \cup Range(DigitChars)

\* /^[a-z0-9]{24}$/.test(identifier)
identifierPattern(identifier) ==
    /\ Len(identifier) = IdentifierLength
    /\ \A i \in DOMAIN identifier :
          identifier[i] \in Range(LowerLetters) \cup Range(DigitChars)

\* ObjectId.isValid for a string of 24 characters (upper case is valid too).
IsHexString(identifier) ==
    /\ Len(identifier) = IdentifierLength
    /\ \A i \in DOMAIN identifier :
          ToLowerChar(identifier[i]) \in HexChars

\* new Types.ObjectId(string): the option is empty when the constructor throws.
ObjectId(identifier) ==
    IF IsHexString(identifier)
    THEN Some([oid |-> ToLowerCase(identifier)])
    ELSE None

UserObjectId(user) == [oid |-> user]

\* The k-th identifier the store generates.
GeneratedId(k) ==
    [oid |-> [i \in 1..IdentifierLength |->
                 IF i < IdentifierLength THEN "0" ELSE DigitChars[k + 1]]]

toExternal(plan) ==
    [id |-> plan._id.oid,
     ownerId |-> plan.ownerId,
     name |-> plan.name,
     code |-> plan.code,
     description |-> plan.description,
     billingCyclePeriod |-> plan.billingCyclePeriod,
     billingCyclePeriodUnit |-> plan.billingCyclePeriodUnit,
     pricePerBillingCycle |-> plan.pricePerBillingCycle,
     setupFee |-> plan.setupFee,
     totalBillingCycles |-> plan.totalBillingCycles,
     trialPeriod |-> plan.trialPeriod,
     trialPeriodUnit |-> plan.trialPeriodUnit,
     renews |-> plan.renews,
     createdAt |-> plan.createdAt,
     updatedAt |-> plan.updatedAt]


(***************************************************************************)
(* The record store: the plans in insertion order.                         *)
(***************************************************************************)
\* Plan.findOne({ code, ownerId }): the first match, or null.
FindOne(store, code, ownerId) ==
    LET hits == {i \in DOMAIN store :
                    store[i].code = code /\ store[i].ownerId = ownerId}
    IN  IF hits = {} THEN None
        ELSE Some(store[CHOOSE i \in hits : \A j \in hits : i <= j])

\* Plan.findById(id).and(conditions): conditions is a set of
\* [key, value] pairs that must all hold.
FindByIdAnd(store, id, conditions) ==
    LET hits == {i \in DOMAIN store :
                    /\ store[i]._id = id
                    /\ \A c \in conditions : store[i][c.key] = c.value}
    IN  IF hits = {} THEN None
        ELSE Some(store[CHOOSE i \in hits : \A j \in hits : i <= j])

\* new RegExp(misc.escapeRegex(search), "i").test(text): text contains
\* search literally, whatever the case.
RegexTest(search, text) ==
    LET needle == ToLowerCase(search)
        hay == ToLowerCase(text)
    IN  \E i \in 1..(Len(hay) - Len(needle) + 1) :
            SubSeq(hay, i, i + Len(needle) - 1) = needle

\* Whether a plan matches the filters of the list query.
MatchesFilters(plan, filters) ==
    /\ plan.ownerId = filters.ownerId
    /\ "createdAt" \in DOMAIN filters =>
          /\ plan.createdAt >= filters.createdAt.gte[1]
          /\ plan.createdAt <= filters.createdAt.lte[1]
    /\ "or" \in DOMAIN filters =>
          \/ RegexTest(filters.or, plan.code.v)
          \/ RegexTest(filters.or, plan.name.v)

RECURSIVE SelectSeq2(_, _)
SelectSeq2(store, filters) ==
    IF store = <<>> THEN <<>>
    ELSE IF MatchesFilters(Head(store), filters)
         THEN <<Head(store)>> \o SelectSeq2(Tail(store), filters)
         ELSE SelectSeq2(Tail(store), filters)

CeilDiv(a, b) == (a + b - 1) \div b

\* Plan.paginate(filters, { limit, page, lean, leanWithId, pagination }) of
\* mongoose-paginate-v2, on the matching documents.  page is 1-indexed.
Paginate(matching, limit, page) ==
    LET totalDocs == Len(matching)
        skip == (page - 1) * limit
        pages == IF CeilDiv(totalDocs, limit) = 0 THEN 1
                 ELSE CeilDiv(totalDocs, limit)
    IN  [docs |-> SubSeq(matching, skip + 1,
                         IF skip + limit < totalDocs THEN skip + limit
                         ELSE totalDocs),
         totalDocs |-> totalDocs,
         limit |-> limit,
         totalPages |-> pages,
         page |-> page,
         hasPrevPage |-> page > 1,
         prevPage |-> IF page > 1 THEN Some(page - 1) ELSE None,
         hasNextPage |-> page < pages,
         nextPage |-> IF page < pages THEN Some(page + 1) ELSE None]

\* Releases of mongoose-paginate-v2 differ on a page below 1: it is raised
\* to 1 ("clamp"), or kept, and the store then rejects the negative skip
\* ("reject").
PageModes == {"clamp", "reject"}

\* JavaScript truthiness of a page number or null.
Truthy(x) == x # None /\ x[1] # 0


\* const parameters = { name: body.name, ... }
PlanParameters(body) == [k \in Range(PlanKeys) |-> Get(body, k)]

\* const parameters = { page: query.page, ..., dateRange: query.date_range, ... }
FilterParameters(query) ==
    [page |-> Get(query, "page"),
     limit |-> Get(query, "limit"),
     dateRange |-> Get(query, "date_range"),
     startDate |-> Get(query, "start_date"),
     endDate |-> Get(query, "end_date"),
     search |-> Get(query, "search")]

(***************************************************************************)
(* Inputs.                                                                 *)
(***************************************************************************)
Users == {"u1", "u2"}
Roles == {"admin", "member"}

BaseBody ==
    [name |-> Str(<<"S", "t">>),
     code |-> Str(<<"A", "b">>),
     billingCyclePeriod |-> Num(1),
     billingCyclePeriodUnit |-> Str("months"),
     pricePerBillingCycle |-> Dec(9, 99),
     totalBillingCycles |-> Num(12)]

FullBody ==
    [name |-> Str(<<" ", "P", "r", "o">>),
     code |-> Str(<<" ", "a", "B", " ">>),
     description |-> Str(<<"d">>),
     billingCyclePeriod |-> Num(30),
     billingCyclePeriodUnit |-> Str("days"),
     pricePerBillingCycle |-> Num(5),
     setupFee |-> Num(1),
     totalBillingCycles |-> Num(0),
     trialPeriod |-> Num(7),
     trialPeriodUnit |-> Str("months"),
     renews |-> Bool(FALSE),
     ownerId |-> Str("u2")]

Without(obj, key) == [k \in DOMAIN obj \ {key} |-> obj[k]]

Bodies ==
    {BaseBody,
     FullBody,
     Without(BaseBody, "name"),
     ("code" :> Str(Rep("x", CodeMax + 1))) @@ BaseBody}

NoQuery == [k \in {} |-> JNull]

Queries ==
    {NoQuery,
     [page |-> Num(-1), date_range |-> Str("last_3_months")],
     [limit |-> Num(LimitMin), search |-> Str(<<"P">>)],
     [date_range |-> Str("custom")],
     [date_range |-> Str("custom"), start_date |-> Date(0), end_date |-> Date(0)],
     [limit |-> Num(LimitMin - 1)]}

Identifiers ==
    {GeneratedId(k).oid : k \in 1..MaxPlans}
        \cup {Rep("a", IdentifierLength),
              Rep("z", IdentifierLength),
              Rep("A", IdentifierLength),
              Rep("a", IdentifierLength - 1)}

\* What the handlers compute from their input alone, for every input.
PlanValidation == [body \in Bodies |-> planSchema(PlanParameters(body))]
FilterValidation == [query \in Queries |-> filterSchema(FilterParameters(query))]
PatternTest == [identifier \in Identifiers |-> identifierPattern(identifier)]
ParsedId == [identifier \in Identifiers |-> ObjectId(identifier)]

(***************************************************************************)
(* State.                                                                  *)
(***************************************************************************)
VARIABLES
    plans,      \* the plan collection, in insertion order
    nextId,     \* the number of the next identifier the store generates
    now,        \* the clock
    req,        \* the request each slot is handling
    answered    \* history: the 201 responses given so far

vars == <<plans, nextId, now, req, answered>>

Idle == [kind |-> "idle", pc |-> "idle"]

NoBody == [message |-> ""]

Message(text) == [message |-> text]

ValidationMessage(error) == Message(error[1].key \o ": " \o error[1].rule)

InFlightCreate(r) == r.kind = "create" /\ r.pc \in {"findOne", "save"}

\* Slots are interchangeable: a request takes the first idle one.
Free(s) ==
    /\ req[s].kind = "idle"
    /\ \A t \in Reqs : t < s => req[t].kind # "idle"

Init ==
    /\ plans = <<>>
    /\ nextId = 1
    /\ now = 0
    /\ req = [s \in Reqs |-> Idle]
    /\ answered = {}

(***************************************************************************)
(* POST /plans                                                             *)
(***************************************************************************)
\* A handler that lets the body name the owner.
CreateOwnerIdFromBody(caller, body) ==
    IF "ownerId" \in DOMAIN body THEN UserObjectId(body.ownerId.v)
    ELSE UserObjectId(caller)

\* const ownerId = new Types.ObjectId(request.user.identifier)
CreateOwnerId(caller, body) == UserObjectId(caller)

\* A handler that ignores the result of the existence check.
MayCreateAlways(found) == TRUE

\* if (plan) { return 400 }: whether the handler goes on to save.
MayCreate(found) == found = None

\* History kept with a create: whether the store held the owner's code when
\* the request started (dup), the store at that time (before), whether
\* another create was in flight during the request (overlap), and whether
\* the store at the response was the store at the start (unchanged).
CreateStart(s, caller, body) ==
    LET r == PlanValidation[body]
        ownerId == CreateOwnerId(caller, body)
        new == [kind |-> "create", pc |-> "done", caller |-> caller,
                body |-> body, value |-> r.value, ownerId |-> ownerId,
                status |-> 400, resp |-> NoBody, calls |-> {},
                dup |-> FALSE, before |-> <<>>,
                overlap |-> \E t \in Reqs \ {s} : InFlightCreate(req[t]),
                unchanged |-> TRUE]
    IN  /\ Free(s)
        /\ IF r.error # None
           THEN req' = [req EXCEPT ![s] =
                           [new EXCEPT !.resp = ValidationMessage(r.error)]]
           ELSE /\ nextId - 1 + Cardinality({t \in Reqs : req[t].pc = "findOne"})
                      < MaxPlans
                /\ req' = [t \in Reqs |->
                             IF t = s
                             THEN [new EXCEPT
                                      !.pc = "findOne", !.status = 0,
                                      !.calls = {"findOne"},
                                      !.dup = FindOne(plans, r.value.code,
                                                      UserObjectId(caller)) # None,
                                      !.before = plans]
                             ELSE IF InFlightCreate(req[t])
                                  THEN [req[t] EXCEPT !.overlap = TRUE]
                                  ELSE req[t]]
        /\ UNCHANGED <<plans, nextId, now, answered>>

\* The existence check resolves; on a miss the document is constructed
\* and its save is issued.
CreateFindOne(s) ==
    /\ req[s].kind = "create"
    /\ req[s].pc = "findOne"
    /\ LET r == req[s]
           plan == FindOne(plans, r.value.code, r.ownerId)
       IN  IF ~MayCreate(plan)
           THEN /\ req' = [req EXCEPT ![s] =
                       [r EXCEPT
                           !.pc = "done", !.status = 400,
                           !.resp = Message(
                               "A plan with the specified code already exists."),
                           !.unchanged = (plans = r.before),
                           !.before = <<>>]]
                /\ UNCHANGED nextId
           ELSE /\ req' = [req EXCEPT ![s] =
                       [r EXCEPT !.pc = "save",
                                 !.calls = @ \cup {"save"},
                                 !.value = ("_id" :> GeneratedId(nextId))
                                           @@ ("ownerId" :> r.ownerId) @@ @]]
                /\ nextId' = nextId + 1
    /\ UNCHANGED <<plans, now, answered>>

\* The save completes and the created plan is returned.
CreateSave(s) ==
    /\ req[s].kind = "create"
    /\ req[s].pc = "save"
    /\ LET r == req[s]
           newPlan == ("createdAt" :> now) @@ ("updatedAt" :> now)
                      @@ ("__v" :> 0) @@ r.value
       IN  /\ plans' = Append(plans, newPlan)
           /\ req' = [req EXCEPT ![s] =
                  [r EXCEPT !.pc = "done", !.status = 201,
                            !.resp = toExternal(newPlan),
                            !.unchanged = FALSE,
                            !.before = <<>>]]
           /\ answered' = answered \cup
                  {[caller |-> r.caller, body |-> toExternal(newPlan)]}
    /\ UNCHANGED <<nextId, now>>

(***************************************************************************)
(* GET /plans                                                              *)
(***************************************************************************)
Instant(value, key) ==
    IF key \in DOMAIN value THEN Some(value[key].v) ELSE None

IsRelative(dateRange) == dateRange # "custom" /\ dateRange # "all_time"

\* const filters = { ownerId }; filters.createdAt; filters.$or
ListFilters(caller, value, startDate, endDate) ==
    (IF value.dateRange.v # "all_time"
     THEN "createdAt" :> [gte |-> startOfDay(startDate), lte |-> endOfDay(endDate)]
     ELSE <<>>)
    @@ (IF value.search # JNull THEN "or" :> value.search.v ELSE <<>>)
    @@ ("ownerId" :> UserObjectId(caller))

ListStart(s, caller, query) ==
    LET r == FilterValidation[query]
        new == [kind |-> "list", pc |-> "done", caller |-> caller,
                query |-> query, status |-> 400, resp |-> NoBody, calls |-> {},
                filterBuilt |-> FALSE, filters |-> <<>>, limit |-> 0, page |-> 0]
    IN  /\ Free(s)
        /\ IF r.error # None
           THEN req' = [req EXCEPT ![s] =
                           [new EXCEPT !.resp = ValidationMessage(r.error)]]
           ELSE LET dateRange == r.value.dateRange.v
                    amount == Months(dateRange)
                    startDate == IF IsRelative(dateRange)
                                 THEN Some(subMonths(now, amount))
                                 ELSE Instant(r.value, "startDate")
                    endDate == IF IsRelative(dateRange)
                               THEN Some(now)
                               ELSE Instant(r.value, "endDate")
                IN  IF IsRelative(dateRange) /\ amount = 0
                    THEN req' = [req EXCEPT ![s] =
                                    [new EXCEPT !.pc = "crashed", !.status = 0]]
                    ELSE req' = [req EXCEPT ![s] =
                             [new EXCEPT
                                 !.pc = "paginate", !.status = 0,
                                 !.calls = {"paginate"},
                                 !.filterBuilt = TRUE,
                                 !.filters = ListFilters(caller, r.value,
                                                         startDate, endDate),
                                 !.limit = r.value.limit.v,
                                 !.page = r.value.page.v]]
        /\ UNCHANGED <<plans, nextId, now, answered>>

\* const result = { totalRecords: plans.totalDocs, page: value.page, ... }
Envelope(result, page) ==
    [totalRecords |-> result.totalDocs,
     page |-> page,
     limit |-> result.limit,
     totalPages |-> result.totalPages,
     previousPage |-> IF Truthy(result.prevPage)
                      THEN Some(result.prevPage[1] - 1) ELSE None,
     nextPage |-> IF Truthy(result.nextPage)
                  THEN Some(result.nextPage[1] - 1) ELSE None,
     hasPreviousPage |-> result.hasPrevPage,
     hasNextPage |-> result.hasNextPage,
     records |-> [i \in DOMAIN result.docs |-> toExternal(result.docs[i])]]

\* Whether the store can cast the filters: an Invalid Date cannot be cast.
CastsFilters(filters) ==
    "createdAt" \in DOMAIN filters =>
        filters.createdAt.gte # None /\ filters.createdAt.lte # None

\* The paginated query resolves and the envelope is returned.
ListPaginate(s, mode) ==
    /\ req[s].kind = "list"
    /\ req[s].pc = "paginate"
    /\ LET r == req[s]
           page == r.page + 1
       IN  IF ~CastsFilters(r.filters) \/ (page < 1 /\ mode = "reject")
           THEN req' = [req EXCEPT ![s] = [r EXCEPT !.pc = "crashed"]]
           ELSE req' = [req EXCEPT ![s] =
                    [r EXCEPT
                        !.pc = "done", !.status = 200,
                        !.resp = Envelope(
                            Paginate(SelectSeq2(plans, r.filters), r.limit,
                                     IF page < 1 THEN 1 ELSE page),
                            r.page)]]
    /\ UNCHANGED <<plans, nextId, now, answered>>

(***************************************************************************)
(* GET /plans/:identifier                                                  *)
(***************************************************************************)
\* A lookup by identifier alone.
GetConditionsNone(ownerId) == {}

\* .and([{ ownerId }])
GetConditions(ownerId) == {[key |-> "ownerId", value |-> ownerId]}

\* History kept with a get: the 201 responses given to the caller for this
\* identifier before the request started (prior).
GetStart(s, caller, identifier) ==
    LET new == [kind |-> "get", pc |-> "done", caller |-> caller,
                identifier |-> identifier, status |-> 400, resp |-> NoBody,
                calls |-> {}, id |-> [oid |-> <<>>],
                prior |-> {a \in answered :
                              a.caller = caller /\ a.body.id = identifier}]
        id == ParsedId[identifier]
    IN  /\ Free(s)
        /\ IF ~PatternTest[identifier]
           THEN req' = [req EXCEPT ![s] =
                    [new EXCEPT !.resp =
                        Message("The specified plan identifier is invalid.")]]
           ELSE IF id = None
                THEN req' = [req EXCEPT ![s] =
                                [new EXCEPT !.pc = "crashed", !.status = 0]]
                ELSE req' = [req EXCEPT ![s] =
                         [new EXCEPT !.pc = "findById", !.status = 0,
                                     !.calls = {"findById"}, !.id = id[1]]]
        /\ UNCHANGED <<plans, nextId, now, answered>>

\* The lookup resolves and the plan, or the not-found message, is returned.
GetFindById(s) ==
    /\ req[s].kind = "get"
    /\ req[s].pc = "findById"
    /\ LET r == req[s]
           plan == FindByIdAnd(plans, r.id, GetConditions(UserObjectId(r.caller)))
       IN  IF plan # None
           THEN req' = [req EXCEPT ![s] =
                    [r EXCEPT !.pc = "done", !.status = 200,
                              !.resp = toExternal(plan[1])]]
           ELSE req' = [req EXCEPT ![s] =
                    [r EXCEPT !.pc = "done", !.status = 404,
                              !.resp = Message(
                                  "Cannot find a plan with the specified identifier.")]]
    /\ UNCHANGED <<plans, nextId, now, answered>>

(***************************************************************************)
(* requireRole(role)                                                       *)
(***************************************************************************)
\* A comparison the wrong way round.
ForbidsInverted(user, role) == user.role = role

\* if (user.role !== role)
Forbids(user, role) == user.role # role

\* The middleware issues the lookup of the caller.
GateStart(s, caller, role) ==
    /\ Free(s)
    /\ req' = [req EXCEPT ![s] =
           [kind |-> "gate", pc |-> "lookup", caller |-> caller, role |-> role,
            status |-> 0, resp |-> NoBody, nextCalled |-> FALSE,
            user |-> None, error |-> FALSE]]
    /\ UNCHANGED <<plans, nextId, now, answered>>

\* The callback of User.findById runs with (error, user); user is the empty
\* option when the lookup found nobody.
GateCallback(s, error, user) ==
    /\ req[s].kind = "gate"
    /\ req[s].pc = "lookup"
    /\ LET r == [req[s] EXCEPT !.user = user, !.error = error]
       IN  IF error
           THEN req' = [req EXCEPT ![s] = [r EXCEPT !.pc = "crashed"]]
           ELSE IF user = None
                THEN req' = [req EXCEPT ![s] = [r EXCEPT !.pc = "crashed"]]
                ELSE IF Forbids(user[1], r.role)
                     THEN req' = [req EXCEPT ![s] =
                              [r EXCEPT
                                  !.pc = "done", !.status = 403,
                                  !.resp = Message(
                                      "The requested resource is forbidden.")]]
                     ELSE req' = [req EXCEPT ![s] =
                              [r EXCEPT !.pc = "done", !.nextCalled = TRUE]]
    /\ UNCHANGED <<plans, nextId, now, answered>>

LookupResults == {None} \cup {Some([role |-> role]) : role \in Roles}

(***************************************************************************)
(* The environment.                                                        *)
(***************************************************************************)
\* The exchange is over and the slot takes the next request.
Finish(s) ==
    /\ req[s].pc \in {"done", "crashed"}
    /\ req' = [req EXCEPT ![s] = Idle]
    /\ UNCHANGED <<plans, nextId, now, answered>>

Tick ==
    /\ now < MaxNow
    /\ now' = now + 1
    /\ UNCHANGED <<plans, nextId, req, answered>>

\* The plan resource.
Next ==
    \/ \E s \in Reqs, caller \in Users, body \in Bodies :
           CreateStart(s, caller, body)
    \/ \E s \in Reqs : CreateFindOne(s)
    \/ \E s \in Reqs : CreateSave(s)
    \/ \E s \in Reqs, caller \in Users, query \in Queries :
           ListStart(s, caller, query)
    \/ \E s \in Reqs, mode \in PageModes : ListPaginate(s, mode)
    \/ \E s \in Reqs, caller \in Users, identifier \in Identifiers :
           GetStart(s, caller, identifier)
    \/ \E s \in Reqs : GetFindById(s)
    \/ \E s \in Reqs : Finish(s)
    \/ Tick

Spec == Init /\ [][Next]_vars

\* The role gate.
NextGate ==
    \/ \E s \in Reqs, caller \in Users, role \in Roles :
           GateStart(s, caller, role)
    \/ \E s \in Reqs, error \in BOOLEAN, user \in LookupResults :
           GateCallback(s, error, user)
    \/ \E s \in Reqs : Finish(s)

SpecGate == Init /\ [][NextGate]_vars


(***************************************************************************)
(* Properties.                                                             *)
(***************************************************************************)
Finished(r) == r.pc \in {"done", "crashed"}

NotFoundBody == Message("Cannot find a plan with the specified identifier.")

\* C1: no two stored plans have the same ownerId and the same code, under
\* any interleaving of the existence checks and saves of POST /plans.
UniqueOwnerCode ==
    \A i, j \in DOMAIN plans :
        plans[i].ownerId = plans[j].ownerId /\ plans[i].code = plans[j].code
            => i = j

\* C2: every plan a response carries is owned by the caller, in the records
\* of GET /plans as in GET /plans/:identifier; a get of a plan that another
\* user owns is answered 404 with the body given for a missing plan.
TenantIsolation ==
    \A s \in Reqs :
        LET r == req[s] IN
        r.pc = "done" =>
            /\ r.kind = "list" /\ r.status = 200 =>
                  \A i \in DOMAIN r.resp.records :
                      r.resp.records[i].ownerId = UserObjectId(r.caller)
            /\ r.kind = "get" /\ r.status = 200 =>
                  r.resp.ownerId = UserObjectId(r.caller)
            /\ r.kind = "get" /\ r.status # 400 =>
                  /\ (\E i \in DOMAIN plans :
                         /\ plans[i]._id.oid = r.identifier
                         /\ plans[i].ownerId # UserObjectId(r.caller))
                        => r.status = 404
                  /\ r.status = 404 => r.resp = NotFoundBody

\* A get by a user of a plan another user owns has been answered.
TenantIsolationWitness ==
    \E s \in Reqs :
        /\ req[s].kind = "get"
        /\ req[s].pc = "done"
        /\ req[s].status = 404
        /\ \E i \in DOMAIN plans :
              /\ plans[i]._id.oid = req[s].identifier
              /\ plans[i].ownerId # UserObjectId(req[s].caller)

\* C3: a POST /plans answered 201 stored and returned a plan whose ownerId
\* is the caller, whatever ownerId the body carries.
CreatedOwnerIsCaller ==
    \A s \in Reqs :
        LET r == req[s] IN
        r.kind = "create" /\ r.pc = "done" /\ r.status = 201 =>
            /\ r.resp.ownerId = UserObjectId(r.caller)
            /\ \E i \in DOMAIN plans :
                  /\ plans[i]._id.oid = r.resp.id
                  /\ plans[i].ownerId = UserObjectId(r.caller)

\* A body naming another user as the owner has been answered 201.
CreatedOwnerIsCallerWitness ==
    \E s \in Reqs :
        /\ req[s].kind = "create"
        /\ req[s].pc = "done"
        /\ req[s].status = 201
        /\ "ownerId" \in DOMAIN req[s].body
        /\ req[s].body.ownerId.v # req[s].caller

\* C4: when the lookup gives a user without error, the middleware answers
\* 403 with the fixed message and does not call next if the roles differ,
\* calls next and answers nothing if they are equal, never both or neither.
RoleGateDecides ==
    \A s \in Reqs :
        LET r == req[s] IN
        r.kind = "gate" /\ Finished(r) /\ ~r.error /\ r.user # None =>
            /\ r.pc = "done"
            /\ r.user[1].role # r.role =>
                  /\ r.status = 403
                  /\ r.resp = Message("The requested resource is forbidden.")
                  /\ ~r.nextCalled
            /\ r.user[1].role = r.role =>
                  /\ r.nextCalled
                  /\ r.status = 0
            /\ (r.status # 0) # r.nextCalled

\* A caller whose role is not the required one has been answered.
RoleGateDecidesWitness ==
    \E s \in Reqs :
        /\ req[s].kind = "gate"
        /\ req[s].pc = "done"
        /\ ~req[s].error
        /\ req[s].user # None
        /\ req[s].user[1].role # req[s].role
        /\ req[s].status = 403

\* C5: when the lookup gives no user and no error, the middleware answers
\* 403, does not call next and does not crash.
MissingUserForbidden ==
    \A s \in Reqs :
        LET r == req[s] IN
        r.kind = "gate" /\ Finished(r) /\ ~r.error /\ r.user = None =>
            /\ r.pc = "done"
            /\ r.status = 403
            /\ ~r.nextCalled

\* C6: a valid POST /plans that starts when the store holds the caller's
\* code, and that no other create overlaps, is answered 400 with the
\* duplicate message and leaves the store as it was.
DuplicateRejected ==
    \A s \in Reqs :
        LET r == req[s] IN
        r.kind = "create" /\ r.pc = "done" /\ r.dup /\ ~r.overlap =>
            /\ r.status = 400
            /\ r.resp = Message("A plan with the specified code already exists.")
            /\ r.unchanged
            /\ "save" \notin r.calls

\* A create of a code its owner already holds has been answered.
DuplicateRejectedWitness ==
    \E s \in Reqs :
        /\ req[s].kind = "create"
        /\ req[s].pc = "done"
        /\ req[s].dup
        /\ ~req[s].overlap
        /\ req[s].status = 400

IsLowerHex24(identifier) ==
    /\ Len(identifier) = IdentifierLength
    /\ \A i \in DOMAIN identifier : identifier[i] \in HexChars

\* C7: a GET /plans/:identifier whose identifier is not 24 lower-case
\* hexadecimal characters is answered 400 before any store access and
\* without any other failure.
MalformedIdentifierRejected ==
    \A s \in Reqs :
        LET r == req[s] IN
        r.kind = "get" /\ ~IsLowerHex24(r.identifier) =>
            /\ r.pc = "done"
            /\ r.status = 400
            /\ r.calls = {}

\* C8: a GET /plans with date_range = custom and no start_date or no
\* end_date is answered 400; no filter is built and the store is not
\* queried.
CustomRangeNeedsDates ==
    \A s \in Reqs :
        LET r == req[s] IN
        /\ r.kind = "list"
        /\ Get(r.query, "date_range") = Some(Str("custom"))
        /\ ("start_date" \notin DOMAIN r.query \/ "end_date" \notin DOMAIN r.query)
        => /\ r.pc = "done"
           /\ r.status = 400
           /\ ~r.filterBuilt
           /\ r.calls = {}

\* C9: the envelope of a GET /plans has hasNextPage true exactly when
\* (page + 1) * limit < totalRecords, page being the envelope's, and
\* nextPage is page + 1 then and null otherwise.
NextPageArithmetic ==
    \A s \in Reqs :
        LET r == req[s] IN
        r.kind = "list" /\ r.pc = "done" /\ r.status = 200 =>
            /\ r.resp.hasNextPage
                  = ((r.resp.page + 1) * r.resp.limit < r.resp.totalRecords)
            /\ r.resp.nextPage
                  = IF r.resp.hasNextPage THEN Some(r.resp.page + 1) ELSE None

\* C10: a get by the caller of a plan whose creation was answered 201
\* before the get started is answered 200 with the projection the create
\* returned.
RoundTrip ==
    \A s \in Reqs :
        LET r == req[s] IN
        r.kind = "get" /\ r.pc = "done" =>
            \A a \in r.prior : r.status = 200 /\ r.resp = a.body

\* A get of a plan created earlier has been answered, another plan having
\* been created in between.
RoundTripWitness ==
    \E s \in Reqs :
        /\ req[s].kind = "get"
        /\ req[s].pc = "done"
        /\ req[s].prior # {}
        /\ req[s].status = 200
        /\ Len(plans) > 1
        /\ plans[Len(plans)]._id.oid # req[s].identifier

=============================================================================
